---- MODULE Spec2Model ----
(***************************************************************************)
(* Task assignment and label submission of the GenAI content labeling      *)
(* system: the handlers of backend/src/main.py over the tables             *)
(* content_items and labels.                                               *)
(*                                                                         *)
(* Every handler is a pair of pure operators over the tables, its effect   *)
(* and its reply, and an action that applies the effect.                   *)
(*                                                                         *)
(* Spec     every handler runs to completion (the handlers are "async def" *)
(*          bodies without an await: one uvicorn process runs them one     *)
(*          after the other).                                              *)
(* ConcSpec the labeler handlers split at their database round trips       *)
(*          (query, then commit), as when several server processes share   *)
(*          the database; nothing in the handlers locks a row.             *)
(* ManySpec as Spec, uploading one URL, with one labeler more than consensus *)
(*          threshold.                                                     *)
(* AISpec   the URL analysis of backend/src/ai_service.py: the extraction  *)
(*          of a page, then its classification.                            *)
(* TimeSpec as Spec for the labelers, with the task start time of the      *)
(*          submission and the time spent it stores on the Label.          *)
(* LiveSpec labelers who keep asking for tasks and submit the tasks they   *)
(*          hold, next to the admin's uploads; with fairness.              *)
(* AwaitSpec the requests /ai/analyze-url and /ai/preselect-indicators: the *)
(*          database session of a request around its await of the analysis. *)
(***************************************************************************)
EXTENDS Integers, Sequences, FiniteSets, Bags, TLC

VARIABLES
    items,      \* table content_items: row id = index
    labels,     \* table labels: the bag of its rows (the row ids left out)
    plan,       \* the order in which the database returns unordered rows
    sess,       \* ConcSpec: the request each database session is serving
    ai          \* AISpec: the URL analysis under way, or its result

vars == <<items, labels, plan, sess, ai>>

-----------------------------------------------------------------------------
(* Bounds of the model *)

NumLabelers == 2
MaxLabels == 2
NumSessions == 2

(* Program constants *)

MinPriority == 1
DefaultPriority == 3
ConsensusThreshold == 3

Labelers == 1..NumLabelers

(* The URLs the admin submits; content_items is capped at one row per URL *)
Urls == {"http://a.test", "http://b.test"}
MaxItems == Cardinality(Urls)
Sessions == 1..NumSessions
None == 0

(* A timestamp that is set: datetime.utcnow(), its value left out *)
Stamped == 1

PENDING == "pending"
IN_PROGRESS == "in_progress"
COMPLETED == "completed"
FAILED == "failed"
ContentStatus == {PENDING, IN_PROGRESS, COMPLETED, FAILED}

AI_GENERATED == "ai_generated"
HUMAN_CREATED == "human_created"
UNCERTAIN == "uncertain"
LabelClassification == {AI_GENERATED, HUMAN_CREATED, UNCERTAIN}

PriorityInputs == {MinPriority, DefaultPriority}

(* A new row of content_items *)
ContentItem(url, priority, st, assignee) ==
    [url |-> url, priority |-> priority, status |-> st,
     assigned_user_id |-> assignee, completed_at |-> None]

(* A new row of labels *)
Label(content_item_id, labeler_id, classification) ==
    [content_item_id |-> content_item_id, labeler_id |-> labeler_id,
     classification |-> classification]

ItemIds(its) == DOMAIN its

-----------------------------------------------------------------------------
(* Query.first() of a query without ORDER BY: the first matching row in the *)
(* order the database scans them. "rowid": primary-key order. "index": the  *)
(* order of idx_content_status_priority (status, priority): the rows of one *)
(* status by priority and then by id.                                       *)

Plans == {"rowid", "index"}

Before(its, p, i, j) ==
    IF p = "rowid" THEN i <= j
    ELSE \/ its[i].priority < its[j].priority
         \/ its[i].priority = its[j].priority /\ i <= j

First(its, p, S) ==
    IF S = {} THEN None
    ELSE CHOOSE i \in S : \A j \in S : Before(its, p, i, j)

-----------------------------------------------------------------------------
(* GET /labeler/task *)

(* The first query without its status filter: any item of the labeler *)
ExistingTaskAnyStatus(its, p, u) ==
    First(its, p, {i \in ItemIds(its) : its[i].assigned_user_id = u})

(* The labeler's task in progress: the first query of the handler *)
ExistingTask(its, p, u) ==
    First(its, p, {i \in ItemIds(its) :
        its[i].assigned_user_id = u /\ its[i].status = IN_PROGRESS})

(* The available item: PENDING and unassigned or assigned to this labeler *)
AvailableItem(its, p, u) ==
    First(its, p, {i \in ItemIds(its) :
        /\ its[i].status = PENDING
        /\ its[i].assigned_user_id = None \/ its[i].assigned_user_id = u})

(* The assignment, as the UPDATE the session flushes at commit: the row is  *)
(* addressed by its id, and only the attributes that differ from the loaded *)
(* row are written.                                                         *)
AssignTask(its, i, u, loaded) ==
    [its EXCEPT ![i].assigned_user_id =
                    IF loaded.assigned_user_id # u THEN u ELSE @,
                ![i].status = IN_PROGRESS]

(* The website_id of the TaskResponse; None is the "No Tasks" message *)
TaskReply(its, p, u) ==
    IF ExistingTask(its, p, u) # None THEN ExistingTask(its, p, u)
    ELSE AvailableItem(its, p, u)

(* The content_items table after the handler *)
TaskEffect(its, p, u) ==
    IF ExistingTask(its, p, u) # None THEN its
    ELSE IF AvailableItem(its, p, u) = None THEN its
    ELSE AssignTask(its, AvailableItem(its, p, u), u,
                    its[AvailableItem(its, p, u)])

get_labeler_task(u) ==
    /\ items' = TaskEffect(items, plan, u)
    /\ UNCHANGED <<labels, plan, sess, ai>>

-----------------------------------------------------------------------------
(* POST /labeler/submit_label *)

ValueError == -1

FormNumbers == {"1", "2", "3", "4", "x"}

(* int(s) of a form field *)
ParseInt(s) ==
    CASE s = "1" -> 1
      [] s = "2" -> 2
      [] s = "3" -> 3
      [] s = "4" -> 4
      [] OTHER -> ValueError

LabelValues == {"GenAI", "Not GenAI", "Unsure"}

(* The label values the labelers submit in the model *)
LabelInputs == {"GenAI", "Unsure"}

(* str.lower() on the label values *)
Lower(s) ==
    CASE s = "GenAI" -> "genai"
      [] s = "Not GenAI" -> "not genai"
      [] s = "Unsure" -> "unsure"
      [] OTHER -> s

ClassificationOf(label_value) ==
    IF Lower(label_value) = "genai" THEN AI_GENERATED
    ELSE IF Lower(label_value) = "not genai" THEN HUMAN_CREATED
    ELSE UNCERTAIN

(* The content item with this id that is assigned to this labeler *)
FindAssigned(its, p, content_item_id, labeler_id) ==
    First(its, p, {i \in ItemIds(its) :
        i = content_item_id /\ its[i].assigned_user_id = labeler_id})

(* A completion that also releases the item from its labeler *)
MarkCompletedAndClear(its, i, now, loaded) ==
    [its EXCEPT ![i].status = COMPLETED,
                ![i].completed_at = now,
                ![i].assigned_user_id = None]

(* The UPDATE flushed at commit: status (when it differs from the loaded *)
(* row) and completed_at.                                                *)
MarkCompleted(its, i, now, loaded) ==
    [its EXCEPT ![i].status = IF loaded.status # COMPLETED THEN COMPLETED ELSE @,
                ![i].completed_at = now]

(* A submission that overwrites the labels stored before it *)
ReplaceLabels(lbs, new_label) == SetToBag({new_label})

(* db.add(new_label) and its INSERT at commit *)
AddLabel(lbs, new_label) == lbs (+) SetToBag({new_label})

(* The except clauses around the handler's body: a ValueError becomes 400, *)
(* any other exception, the HTTPException the body raises included, 500.   *)
SubmitFailure(exception) ==
    IF exception = "ValueError" THEN 400 ELSE 500

(* The exception the body raises before it writes, or "none" *)
SubmitRaises(its, p, website_id, user_id) ==
    IF ParseInt(website_id) = ValueError \/ ParseInt(user_id) = ValueError
    THEN "ValueError"
    ELSE IF FindAssigned(its, p, ParseInt(website_id), ParseInt(user_id)) = None
    THEN "HTTPException"
    ELSE "none"

(* The status code of the response *)
SubmitReply(its, p, website_id, user_id) ==
    IF SubmitRaises(its, p, website_id, user_id) = "none" THEN 200
    ELSE SubmitFailure(SubmitRaises(its, p, website_id, user_id))

(* The rows of content_items after the handler *)
SubmitItems(its, p, website_id, user_id) ==
    IF SubmitRaises(its, p, website_id, user_id) # "none" THEN its
    ELSE MarkCompleted(its, ParseInt(website_id), Stamped,
                       its[ParseInt(website_id)])

(* The rows of labels after the handler *)
SubmitLabels(lbs, its, p, website_id, user_id, label_value) ==
    IF SubmitRaises(its, p, website_id, user_id) # "none" THEN lbs
    ELSE AddLabel(lbs, Label(ParseInt(website_id), ParseInt(user_id),
                             ClassificationOf(label_value)))

submit_label(website_id, user_id, label_value) ==
    /\ items' = SubmitItems(items, plan, website_id, user_id)
    /\ labels' = SubmitLabels(labels, items, plan, website_id, user_id,
                              label_value)
    /\ UNCHANGED <<plan, sess, ai>>

FormOf(n) == CHOOSE s \in FormNumbers : ParseInt(s) = n

-----------------------------------------------------------------------------
(* Content creation and admin upload *)

(* The stored row with this URL, if any. The sessions are made with        *)
(* autoflush=False, so the query sees the committed rows only, not the rows *)
(* the running handler has added.                                          *)
ExistingContent(its, p, url) ==
    First(its, p, {i \in ItemIds(its) : its[i].url = url})

(* The URL lists of an upload: one URL, or two (which may be the same) *)
UrlLists(U) == {<<a>> : a \in U} \cup {<<a, b>> : a \in U, b \in U}

NewUrls(its, p, urls) ==
    SelectSeq(urls, LAMBDA url : ExistingContent(its, p, url) = None)

ResetItem(row) ==
    [row EXCEPT !.status = PENDING, !.assigned_user_id = None,
                !.completed_at = None]

(* The loop of admin_upload_urls and its commit *)
AdminUpload(its, p, urls, reset_existing) ==
    LET created == NewUrls(its, p, urls)
        existing == {ExistingContent(its, p, urls[k]) : k \in DOMAIN urls} \ {None}
    IN  [i \in DOMAIN its |->
            IF reset_existing /\ i \in existing THEN ResetItem(its[i]) ELSE its[i]]
        \o [k \in DOMAIN created |->
            ContentItem(created[k], DefaultPriority, PENDING, None)]

admin_upload_urls(urls, reset_existing) ==
    /\ items' = AdminUpload(items, plan, urls, reset_existing)
    /\ UNCHANGED <<labels, plan, sess, ai>>

(* 200, or 400 "URL already exists in the system" *)
CreateReply(its, p, url) ==
    IF ExistingContent(its, p, url) # None THEN 400 ELSE 200

CreateContent(its, p, url, priority) ==
    IF ExistingContent(its, p, url) # None THEN its
    ELSE Append(its, ContentItem(url, priority, PENDING, None))

create_content_item(url, priority) ==
    /\ items' = CreateContent(items, plan, url, priority)
    /\ UNCHANGED <<labels, plan, sess, ai>>

(* The first active user with the labeler role *)
AvailableLabeler == CHOOSE u \in Labelers : \A v \in Labelers : u <= v

(* The loop of bulk_upload_content and its commit *)
BulkUpload(its, p, urls, priority, auto_assign) ==
    LET created == NewUrls(its, p, urls)
    IN  its \o [k \in DOMAIN created |->
            IF auto_assign
            THEN ContentItem(created[k], priority, IN_PROGRESS, AvailableLabeler)
            ELSE ContentItem(created[k], priority, PENDING, None)]

bulk_upload_content(urls, priority, auto_assign) ==
    /\ items' = BulkUpload(items, plan, urls, priority, auto_assign)
    /\ UNCHANGED <<labels, plan, sess, ai>>

-----------------------------------------------------------------------------
(* Spec: the handlers, one at a time. The tables are capped at MaxItems and *)
(* MaxLabels rows.                                                          *)

Idle == [pc |-> "idle"]

(* scripts/init_db.py: the sample content items, every other one assigned *)
(* to the sample labeler, all PENDING by the column's default.           *)
SampleUrls == <<"http://a.test", "http://b.test">>

create_sample_data ==
    [i \in 1..Len(SampleUrls) |->
        ContentItem(SampleUrls[i], DefaultPriority, PENDING,
                    IF (i - 1) % 2 = 0 THEN 1 ELSE None)]

(* The database after initialize_database, with or without the sample data *)
Init ==
    /\ items \in {<< >>, create_sample_data}
    /\ labels = EmptyBag
    /\ plan \in Plans
    /\ sess = [s \in Sessions |-> Idle]
    /\ ai = Idle

WebsiteIdInputs == {s \in FormNumbers : ParseInt(s) \in 1..MaxItems} \cup {"x"}
UserIdInputs == {s \in FormNumbers : ParseInt(s) \in Labelers}

GetLabelerTask == \E u \in Labelers : get_labeler_task(u)

SubmitLabel ==
    \E w \in WebsiteIdInputs, u \in UserIdInputs, v \in LabelInputs :
        submit_label(w, u, v) /\ BagCardinality(labels') <= MaxLabels

AdminUploadUrls ==
    \E urls \in UrlLists(Urls), r \in BOOLEAN :
        admin_upload_urls(urls, r) /\ Len(items') <= MaxItems

CreateContentItem ==
    \E url \in Urls, pr \in PriorityInputs :
        create_content_item(url, pr) /\ Len(items') <= MaxItems

BulkUploadContent ==
    \E urls \in UrlLists(Urls), a \in BOOLEAN :
        bulk_upload_content(urls, DefaultPriority, a) /\ Len(items') <= MaxItems

Next ==
    \/ GetLabelerTask
    \/ SubmitLabel
    \/ AdminUploadUrls
    \/ CreateContentItem
    \/ BulkUploadContent

Spec == Init /\ [][Next]_vars

-----------------------------------------------------------------------------
(* ManySpec: the labeler handlers and the admin upload over one URL, with   *)
(* ConsensusThreshold + 1 labelers.                                         *)

ManyLabelers == 1..(ConsensusThreshold + 1)

ManyGetLabelerTask == \E u \in ManyLabelers : get_labeler_task(u)

ManySubmitLabel ==
    \E n \in ManyLabelers :
        /\ submit_label("1", FormOf(n), "GenAI")
        /\ BagCardinality(labels') <= ConsensusThreshold + 1

ManyAdminUploadUrls ==
    \E r \in BOOLEAN : admin_upload_urls(<<"http://a.test">>, r)

ManyNext ==
    \/ ManyGetLabelerTask
    \/ ManySubmitLabel
    \/ ManyAdminUploadUrls

ManySpec == Init /\ [][ManyNext]_vars

-----------------------------------------------------------------------------
(* ConcSpec: a session runs the queries of a labeler handler in one step    *)
(* and its commit in a later one; other sessions run in between. The        *)
(* database applies each statement to the committed rows (READ COMMITTED):  *)
(* the UPDATE at commit addresses the row by its id, whatever another       *)
(* session did to it since it was loaded.                                   *)

(* get_labeler_task up to its commit *)
TaskQuery(s, u) ==
    /\ sess[s] = Idle
    /\ IF ExistingTask(items, plan, u) # None \/ AvailableItem(items, plan, u) = None
       THEN UNCHANGED sess
       ELSE sess' = [sess EXCEPT ![s] =
                [pc |-> "assign", user |-> u,
                 item |-> AvailableItem(items, plan, u),
                 loaded |-> items[AvailableItem(items, plan, u)]]]
    /\ UNCHANGED <<items, labels, plan, ai>>

(* db.commit() of get_labeler_task *)
TaskCommit(s) ==
    /\ sess[s].pc = "assign"
    /\ items' = AssignTask(items, sess[s].item, sess[s].user, sess[s].loaded)
    /\ sess' = [sess EXCEPT ![s] = Idle]
    /\ UNCHANGED <<labels, plan, ai>>

(* submit_label up to its commit *)
SubmitQuery(s, website_id, user_id, label_value) ==
    /\ sess[s] = Idle
    /\ IF SubmitRaises(items, plan, website_id, user_id) # "none"
       THEN UNCHANGED sess
       ELSE sess' = [sess EXCEPT ![s] =
                [pc |-> "complete", user |-> ParseInt(user_id),
                 item |-> ParseInt(website_id),
                 classification |-> ClassificationOf(label_value),
                 loaded |-> items[ParseInt(website_id)]]]
    /\ UNCHANGED <<items, labels, plan, ai>>

(* db.commit() of submit_label *)
SubmitCommit(s) ==
    /\ sess[s].pc = "complete"
    /\ labels' = AddLabel(labels,
           Label(sess[s].item, sess[s].user, sess[s].classification))
    /\ items' = MarkCompleted(items, sess[s].item, Stamped, sess[s].loaded)
    /\ sess' = [sess EXCEPT ![s] = Idle]
    /\ UNCHANGED <<plan, ai>>

ConcTaskQuery == \E s \in Sessions, u \in Labelers : TaskQuery(s, u)

ConcTaskCommit == \E s \in Sessions : TaskCommit(s)

ConcSubmitQuery ==
    \E s \in Sessions, w \in WebsiteIdInputs, u \in UserIdInputs :
        SubmitQuery(s, w, u, "GenAI")

ConcSubmitCommit ==
    \E s \in Sessions : SubmitCommit(s) /\ BagCardinality(labels') <= MaxLabels

ConcNext ==
    \/ ConcTaskQuery
    \/ ConcTaskCommit
    \/ ConcSubmitQuery
    \/ ConcSubmitCommit
    \/ AdminUploadUrls

ConcSpec == Init /\ [][ConcNext]_vars

-----------------------------------------------------------------------------
(* Properties *)

HasLabel(lbs, i, u) ==
    \E l \in BagToSet(lbs) : l.content_item_id = i /\ l.labeler_id = u

(* The number of Label rows of labeler u on item i *)
LabelCount(lbs, i, u) ==
    BagCardinality([l \in {x \in BagToSet(lbs) :
                              x.content_item_id = i /\ x.labeler_id = u}
                    |-> lbs[l]])

(* The distinct labelers with a label on item i *)
LabelersOf(lbs, i) ==
    {l.labeler_id : l \in {x \in BagToSet(lbs) : x.content_item_id = i}}

ActiveTasks(its, u) ==
    {i \in ItemIds(its) :
        its[i].status = IN_PROGRESS /\ its[i].assigned_user_id = u}

(* C1: no double assignment. Once an item is IN_PROGRESS, no step of a      *)
(* requestTask hands it to another labeler: while it stays IN_PROGRESS its  *)
(* assignee stays the same (ConcSpec).                                      *)
C1_NoDoubleAssignment ==
    [][\A i \in DOMAIN items :
          (items[i].status = IN_PROGRESS /\ items'[i].status = IN_PROGRESS)
              => items'[i].assigned_user_id = items[i].assigned_user_id]_vars

(* C2: at most one Label row for each (content item, labeler) pair. *)
C2_OneLabelPerPair ==
    \A l \in BagToSet(labels) :
        LabelCount(labels, l.content_item_id, l.labeler_id) <= 1

(* C3: a submission by a labeler who already has a Label on the item is    *)
(* refused, and it changes neither the Labels nor any item (status,        *)
(* assignee, completion time).                                             *)
C3_SecondSubmitRejected ==
    [][\A w \in WebsiteIdInputs, u \in UserIdInputs, v \in LabelInputs :
          (/\ ParseInt(w) # ValueError
           /\ HasLabel(labels, ParseInt(w), ParseInt(u))
           /\ submit_label(w, u, v))
          => /\ SubmitReply(items, plan, w, u) # 200
             /\ UNCHANGED <<items, labels>>]_vars

(* C4: a submission for an item that does not exist or is not assigned to   *)
(* the submitting labeler is answered with the typed client error (400),    *)
(* not with the generic internal failure (500).                             *)
C4_NotAssignedIsTyped ==
    \A w \in WebsiteIdInputs, u \in UserIdInputs :
        (/\ ParseInt(w) # ValueError
         /\ \/ ParseInt(w) \notin DOMAIN items
            \/ items[ParseInt(w)].assigned_user_id # ParseInt(u))
        => SubmitReply(items, plan, w, u) = 400

(* C5: idempotent re-entry. A labeler who owns an IN_PROGRESS item gets an  *)
(* IN_PROGRESS item of theirs from requestTask, the call changes no item,   *)
(* and the next call returns the same item.                                 *)
C5_IdempotentReentry ==
    \A u \in Labelers :
        ActiveTasks(items, u) # {} =>
            /\ TaskReply(items, plan, u) \in ActiveTasks(items, u)
            /\ TaskEffect(items, plan, u) = items
            /\ TaskReply(TaskEffect(items, plan, u), plan, u)
                   = TaskReply(items, plan, u)

(* A labeler owns one IN_PROGRESS item while another item is PENDING and    *)
(* unassigned, and requestTask returns the owned one.                       *)
C5_Witness ==
    \E u \in Labelers, i \in DOMAIN items, j \in DOMAIN items :
        /\ ActiveTasks(items, u) = {i}
        /\ items[j].status = PENDING /\ items[j].assigned_user_id = None
        /\ TaskReply(items, plan, u) = i

(* C6: each labeler is the assignee of at most one IN_PROGRESS item. *)
C6_OneActiveTask ==
    \A u \in Labelers : Cardinality(ActiveTasks(items, u)) <= 1

(* C7: at most ConsensusThreshold distinct labelers attach a Label to an    *)
(* item (ManySpec).                                                         *)
C7_ConsensusBound ==
    \A i \in DOMAIN items :
        Cardinality(LabelersOf(labels, i)) <= ConsensusThreshold

(* C8: an item labeled by ConsensusThreshold distinct labelers is not       *)
(* returned by requestTask to any further labeler (ManySpec).               *)
C8_ThresholdExclusion ==
    \A i \in DOMAIN items, u \in ManyLabelers :
        (/\ Cardinality(LabelersOf(labels, i)) >= ConsensusThreshold
         /\ u \notin LabelersOf(labels, i))
        => TaskReply(items, plan, u) # i

(* C9: requestTask never returns to a labeler an item that labeler has      *)
(* already labeled.                                                         *)
C9_NeverOwnLabeledItem ==
    \A l \in BagToSet(labels) :
        TaskReply(items, plan, l.labeler_id) # l.content_item_id

(* The classification a submitted label value stands for *)
SubmittedClassification(label_value) ==
    CASE label_value = "GenAI" -> AI_GENERATED
      [] label_value = "Not GenAI" -> HUMAN_CREATED
      [] OTHER -> UNCERTAIN

(* C10: a submission by labeler L for the item I that requestTask assigned  *)
(* to L (IN_PROGRESS, assignee L) leaves I COMPLETED with completed_at set  *)
(* and assignee L, adds exactly one Label (I, L, submitted classification), *)
(* and changes no other item.                                               *)
C10_SubmitEffect ==
    \A w \in WebsiteIdInputs, u \in UserIdInputs, v \in LabelInputs :
        (/\ ParseInt(w) \in DOMAIN items
         /\ items[ParseInt(w)].status = IN_PROGRESS
         /\ items[ParseInt(w)].assigned_user_id = ParseInt(u))
        => LET after == SubmitItems(items, plan, w, u)
           IN  /\ SubmitReply(items, plan, w, u) = 200
               /\ DOMAIN after = DOMAIN items
               /\ after[ParseInt(w)].status = COMPLETED
               /\ after[ParseInt(w)].completed_at # None
               /\ after[ParseInt(w)].assigned_user_id = ParseInt(u)
               /\ \A j \in DOMAIN items : j # ParseInt(w) => after[j] = items[j]
               /\ SubmitLabels(labels, items, plan, w, u, v) =
                      labels (+) SetToBag(
                        {[content_item_id |-> ParseInt(w),
                          labeler_id |-> ParseInt(u),
                          classification |-> SubmittedClassification(v)]})

(* An item is COMPLETED with its completion time, still assigned to the     *)
(* labeler whose one Label it carries, next to an item nobody touched.      *)
C10_Witness ==
    \E i \in DOMAIN items, j \in DOMAIN items :
        /\ items[i].status = COMPLETED
        /\ items[i].completed_at # None
        /\ items[i].assigned_user_id \in Labelers
        /\ BagCardinality(labels) = 1
        /\ HasLabel(labels, i, items[i].assigned_user_id)
        /\ items[j].status = PENDING

-----------------------------------------------------------------------------
(* Item invariants and task selection *)

(* C11: a content item that is IN_PROGRESS has an assigned labeler. *)
C11_InProgressHasAssignee ==
    \A i \in DOMAIN items :
        items[i].status = IN_PROGRESS => items[i].assigned_user_id # None

(* C12: a step that takes an item out of COMPLETED is an admin upload with *)
(* reset_existing; no task request and no submission does it.             *)
C12_CompletedIsTerminal ==
    [][\A i \in DOMAIN items :
          (items[i].status = COMPLETED /\ items'[i].status # COMPLETED)
          => \E urls \in UrlLists(Urls) : admin_upload_urls(urls, TRUE)]_vars

(* C13: a task request changes an item's status only from PENDING to     *)
(* IN_PROGRESS, a submission only from IN_PROGRESS to COMPLETED.         *)
C13_StateMachine ==
    [][\A i \in DOMAIN items :
          items'[i].status # items[i].status
          => /\ (\E u \in Labelers : get_labeler_task(u))
                => items[i].status = PENDING /\ items'[i].status = IN_PROGRESS
             /\ (\E w \in WebsiteIdInputs, u \in UserIdInputs,
                     v \in LabelInputs : submit_label(w, u, v))
                => items[i].status = IN_PROGRESS
                   /\ items'[i].status = COMPLETED]_vars

(* The items a labeler may be handed: PENDING, unassigned or assigned to  *)
(* the labeler, not labeled by the labeler, and labeled by fewer distinct *)
(* labelers than the consensus threshold.                                 *)
EligibleItems(its, lbs, u) ==
    {i \in DOMAIN its :
        /\ its[i].status = PENDING
        /\ its[i].assigned_user_id = None \/ its[i].assigned_user_id = u
        /\ ~HasLabel(lbs, i, u)
        /\ Cardinality(LabelersOf(lbs, i)) < ConsensusThreshold}

(* C14: a labeler without an IN_PROGRESS item is handed the eligible item *)
(* with the lowest id.                                                    *)
C14_OldestFirst ==
    \A u \in Labelers :
        (ActiveTasks(items, u) = {} /\ EligibleItems(items, labels, u) # {})
        => /\ TaskReply(items, plan, u) \in EligibleItems(items, labels, u)
           /\ \A j \in EligibleItems(items, labels, u) :
                  TaskReply(items, plan, u) <= j

(* C15: a labeler without an IN_PROGRESS item, when no item is eligible, *)
(* is answered "No Tasks", and the request changes no item.              *)
C15_NoTaskAvailable ==
    \A u \in Labelers :
        (ActiveTasks(items, u) = {} /\ EligibleItems(items, labels, u) = {})
        => /\ TaskReply(items, plan, u) = None
           /\ TaskEffect(items, plan, u) = items

(* C16: no two content items have the same URL. *)
C16_UrlUnique ==
    \A i \in DOMAIN items, j \in DOMAIN items :
        items[i].url = items[j].url => i = j

-----------------------------------------------------------------------------
(* AISpec: AIContentAnalyzer of ai_service.py.                              *)
(* A text (a URL, an error message, a model response) is the sequence of    *)
(* its pieces, so that `pattern in text` is a search for a piece.           *)

(* Python's None where a text is expected *)
NoText == <<"None">>

(* str.lower() on a piece *)
LowerPiece(t) ==
    CASE t = "Best-" -> "best-"
      [] t = "Not Found" -> "not found"
      [] t = "AI-Generated" -> "ai-generated"
      [] t = "Human_Created" -> "human_created"
      [] OTHER -> t

(* `pattern in text` *)
Contains(text, pattern) == \E k \in DOMAIN text : text[k] = pattern

(* `pattern in text.lower()` *)
ContainsLower(text, pattern) ==
    \E k \in DOMAIN text : LowerPiece(text[k]) = pattern

AnalysisUrls ==
    { <<"https://", "example.com", "/article">>,
      <<"https://", "example.com", "/", "Best-", "laptops">>,
      <<"https://", "inews", ".example.com", "/article">>,
      <<"https://", "suara", ".com", "/", "how-to-", "cook">> }

(* The minimum word count of the model path *)
MinWords == 50

(* The dictionary extract_content_from_url returns *)
ContentData(content_text, word_count, error) ==
    [content_text |-> content_text, word_count |-> word_count, error |-> error]

ExtractionErrors ==
    { <<"Failed to fetch content:", "Read timed out">>,
      <<"Failed to fetch content:", "404", " Client Error: ", "Not Found">>,
      <<"Unexpected error:", "unknown encoding">> }

WordCounts == {0, MinWords - 1, MinWords}

ExtractionOutcomes ==
    {ContentData("", 0, e) : e \in ExtractionErrors}
    \cup {ContentData(IF n = 0 THEN "" ELSE "text", n, NoText) : n \in WordCounts}

(* An analysis result; error is NoText when the dictionary has no error key *)
AnalysisResult(classification, confidence_score, ai_indicators, error) ==
    [classification |-> classification, confidence_score |-> confidence_score,
     ai_indicators |-> ai_indicators, error |-> error]

(* An exception leaving a block *)
Raise(exception) == [raised |-> exception]

IsRaise(r) == "raised" \in DOMAIN r

_create_error_response(error_message) ==
    AnalysisResult(UNCERTAIN, 0, << >>, error_message)

FormulaicPatterns == {"coupon-code", "welcome-home", "best-", "top-", "how-to-"}

SuspiciousDomains == {".co.id", "inews", "suara"}

Max(a, b) == IF a >= b THEN a ELSE b

(* The try block of _analyze_url_based_fallback *)
UrlFallbackBody(url, error_reason) ==
    LET formulaic == \E p \in FormulaicPatterns : ContainsLower(url, p)
        domain == \E p \in SuspiciousDomains : ContainsLower(url, p)
        d1 == IF formulaic THEN <<"ai-4", "ai-5">> ELSE << >>
        c1 == IF formulaic THEN 45 ELSE 30
        d2 == IF domain THEN Append(d1, "ai-17") ELSE d1
        c2 == IF domain THEN 40 ELSE c1
    IN  IF error_reason = NoText THEN Raise("TypeError")
        ELSE LET notfound == \/ Contains(error_reason, "404")
                             \/ ContainsLower(error_reason, "not found")
                 d3 == IF notfound THEN d2 \o <<"ai-8", "ai-9">> ELSE d2
                 k3 == IF notfound THEN AI_GENERATED ELSE UNCERTAIN
                 c3 == IF notfound THEN 60 ELSE c2
             IN  AnalysisResult(IF Len(d3) >= 2 THEN AI_GENERATED ELSE k3,
                                IF Len(d3) >= 2 THEN Max(c3, 55) ELSE c3,
                                d3, NoText)

_analyze_url_based_fallback(url, error_reason) ==
    IF IsRaise(UrlFallbackBody(url, error_reason))
    THEN _create_error_response(
             <<"Both content extraction and URL analysis failed:">>
             \o error_reason)
    ELSE UrlFallbackBody(url, error_reason)

(* A JSON object in a model response; NoObject when the text holds none *)
NoObject == [classification |-> "<none>", confidence_score |-> 0,
             ai_indicators |-> << >>, error |-> NoText]

(* The text between the first "{" and the last "}" of a response when *)
(* json.loads rejects it                                               *)
BrokenObject == [classification |-> "<broken>", confidence_score |-> 0,
                 ai_indicators |-> << >>, error |-> NoText]

(* The objects that conform to the response_schema of the request *)
SchemaObjects ==
    {AnalysisResult(k, c, <<"ai-1">>, NoText) :
        k \in LabelClassification, c \in {0, 85, 100}}

(* Objects of a response that is not the schema's JSON *)
FreeObjects ==
    {AnalysisResult("ai_generated", 85, <<"ai-1">>, NoText),
     AnalysisResult("likely_ai", 85, << >>, NoText),
     AnalysisResult("human_created", 120, << >>, NoText)}

ResponseTexts ==
    { <<"The content is ", "AI-Generated">>,
      <<"Classification: ", "Human_Created">>,
      <<"AI-Generated", " rather than ", "Human_Created">>,
      <<"I cannot decide.">> }

(* What generate_content does: it raises, or it returns a response whose   *)
(* text is None, JSON (an object or another value), or other text, with or *)
(* without an object in braces inside.                                     *)
ModelBehaviour(kind, obj, pieces) ==
    [kind |-> kind, obj |-> obj, pieces |-> pieces]

ModelBehaviours ==
    {ModelBehaviour("exception", NoObject, <<"503 UNAVAILABLE">>),
     ModelBehaviour("no_text", NoObject, NoText),
     ModelBehaviour("json_value", NoObject, <<"[]">>)}
    \cup {ModelBehaviour("json_object", o, << >>) : o \in SchemaObjects}
    \cup {ModelBehaviour("text", o, t) :
            o \in FreeObjects \cup {NoObject, BrokenObject},
            t \in ResponseTexts}

(* A fallback parser that looks for the human label first *)
ParseHumanFirst(response) ==
    IF response.obj \notin {NoObject, BrokenObject} THEN response.obj
    ELSE IF \/ ContainsLower(response.pieces, "human_created")
            \/ ContainsLower(response.pieces, "human-created")
    THEN AnalysisResult(HUMAN_CREATED, 70,
             <<"Fallback analysis - detailed parsing failed">>, NoText)
    ELSE IF \/ ContainsLower(response.pieces, "ai_generated")
            \/ ContainsLower(response.pieces, "ai-generated")
    THEN AnalysisResult(AI_GENERATED, 70,
             <<"Fallback analysis - detailed parsing failed">>, NoText)
    ELSE AnalysisResult(UNCERTAIN, 50,
             <<"Fallback analysis - detailed parsing failed">>, NoText)

_parse_fallback_response(response) ==
    IF response.obj \notin {NoObject, BrokenObject} THEN response.obj
    ELSE IF \/ ContainsLower(response.pieces, "ai_generated")
            \/ ContainsLower(response.pieces, "ai-generated")
    THEN AnalysisResult(AI_GENERATED, 70,
             <<"Fallback analysis - detailed parsing failed">>, NoText)
    ELSE IF \/ ContainsLower(response.pieces, "human_created")
            \/ ContainsLower(response.pieces, "human-created")
    THEN AnalysisResult(HUMAN_CREATED, 70,
             <<"Fallback analysis - detailed parsing failed">>, NoText)
    ELSE AnalysisResult(UNCERTAIN, 50,
             <<"Fallback analysis - detailed parsing failed">>, NoText)

(* The try block of analyze_content_with_ai: the request, json.loads, the *)
(* fallback parser, and the metadata written into the parsed value.       *)
ModelPath(response) ==
    CASE response.kind = "exception" -> Raise(response.pieces)
      [] response.kind = "no_text" -> Raise(<<"TypeError">>)
      [] response.kind = "json_value" -> Raise(<<"TypeError">>)
      [] response.kind = "json_object" -> response.obj
      [] OTHER -> _parse_fallback_response(response)

(* The condition of the fallback branch *)
ExtractionInsufficient(content_data) ==
    \/ content_data.error # NoText
    \/ content_data.content_text = ""
    \/ content_data.word_count < MinWords

(* analyze_content_with_ai with the exception of its try block let out *)
analyze_content_unguarded(client, content_data, url, response) ==
    IF ~client THEN _create_error_response(<<"AI client not initialized">>)
    ELSE IF ExtractionInsufficient(content_data)
    THEN IF url # NoText
         THEN _analyze_url_based_fallback(url, content_data.error)
         ELSE _create_error_response(
                  <<"Cannot analyze due to content extraction error:">>
                  \o content_data.error)
    ELSE ModelPath(response)

analyze_content_with_ai(client, content_data, url, response) ==
    IF ~client THEN _create_error_response(<<"AI client not initialized">>)
    ELSE IF ExtractionInsufficient(content_data)
    THEN IF url # NoText
         THEN _analyze_url_based_fallback(url, content_data.error)
         ELSE _create_error_response(
                  <<"Cannot analyze due to content extraction error:">>
                  \o content_data.error)
    ELSE IF IsRaise(ModelPath(response))
    THEN _create_error_response(
             <<"AI analysis failed:">> \o ModelPath(response).raised)
    ELSE ModelPath(response)

(* extract_content_from_url, as called by analyze_url_async *)
extract_content_from_url ==
    /\ ai = Idle
    /\ \E url \in AnalysisUrls, content_data \in ExtractionOutcomes :
           ai' = [pc |-> "extracted", url |-> url, content_data |-> content_data,
                  fetches |-> 1]
    /\ UNCHANGED <<items, labels, plan, sess>>

(* The parser that produced the value of analysis_result, if any did *)
ParserUsed(client, content_data, response) ==
    IF ~client \/ ExtractionInsufficient(content_data) THEN "none"
    ELSE CASE response.kind \in {"json_object", "json_value"} -> "json.loads"
           [] response.kind = "text" -> "_parse_fallback_response"
           [] OTHER -> "none"

(* An analysis that rates every page as fit for the model *)
ModelCallsAlways(client, content_data) == IF client THEN 1 ELSE 0

(* The calls of generate_content in one analysis *)
ModelCalls(client, content_data) ==
    IF client /\ ~ExtractionInsufficient(content_data) THEN 1 ELSE 0

Analyzed(client, content_data, url, response) ==
    [pc |-> "done", client |-> client, content_data |-> content_data,
     url |-> url, response |-> response,
     model_calls |-> ModelCalls(client, content_data),
     parser |-> ParserUsed(client, content_data, response),
     result |-> analyze_content_with_ai(client, content_data, url, response)]

(* analyze_url_async after the extraction: the analysis, given the URL *)
analyze_url_async ==
    /\ ai.pc = "extracted"
    /\ \E client \in BOOLEAN, response \in ModelBehaviours :
           ai' = [fetches |-> ai.fetches]
                 @@ Analyzed(client, ai.content_data, ai.url, response)
    /\ UNCHANGED <<items, labels, plan, sess>>

(* analyze_content_with_ai called with the content only (url=None) *)
AnalyzeContentOnly ==
    /\ ai.pc = "extracted"
    /\ \E client \in BOOLEAN, response \in ModelBehaviours :
           ai' = [fetches |-> ai.fetches]
                 @@ Analyzed(client, ai.content_data, NoText, response)
    /\ UNCHANGED <<items, labels, plan, sess>>

(* The result is returned to the caller *)
AnalysisReturn ==
    /\ ai.pc = "done"
    /\ ai' = Idle
    /\ UNCHANGED <<items, labels, plan, sess>>

AIInit ==
    /\ items = << >>
    /\ labels = EmptyBag
    /\ plan = "rowid"
    /\ sess = [s \in Sessions |-> Idle]
    /\ ai = Idle

AINext ==
    \/ extract_content_from_url
    \/ analyze_url_async
    \/ AnalyzeContentOnly
    \/ AnalysisReturn

AISpec == AIInit /\ [][AINext]_vars

-----------------------------------------------------------------------------
(* Properties of the URL analysis *)

(* The analysis went to the model: a client, and enough extracted text *)
WentToModel ==
    /\ ai.pc = "done"
    /\ ai.client
    /\ ai.content_data.error = NoText
    /\ ai.content_data.content_text # ""
    /\ ai.content_data.word_count >= MinWords

(* The analysis took the URL fallback: a client, a URL, and an extraction *)
(* that failed or gave fewer than MinWords words.                         *)
TookFallback ==
    /\ ai.pc = "done"
    /\ ai.client
    /\ ai.url # NoText
    /\ \/ ai.content_data.error # NoText
       \/ ai.content_data.word_count < MinWords

(* C17: every analysis returns a result, never an exception; an exception *)
(* of the model call becomes UNCERTAIN with confidence 0 and the          *)
(* exception's text in the error.                                         *)
C17_AnalysisIsTotal ==
    ai.pc = "done"
    => /\ ~IsRaise(ai.result)
       /\ (WentToModel /\ ai.response.kind = "exception")
          => /\ ai.result.classification = UNCERTAIN
             /\ ai.result.confidence_score = 0
             /\ \A k \in DOMAIN ai.response.pieces :
                    Contains(ai.result.error, ai.response.pieces[k])

(* The model call raised, and the analysis returned its error result *)
C17_Witness ==
    /\ WentToModel
    /\ ai.response.kind = "exception"
    /\ ai.result.error # NoText

(* C18: every result has a classification out of AI_GENERATED,            *)
(* HUMAN_CREATED, UNCERTAIN and a confidence from 0 to 100.               *)
C18_WellFormedResult ==
    ai.pc = "done"
    => /\ ai.result.classification \in LabelClassification
       /\ ai.result.confidence_score \in 0..100

(* The AI-indicator ids the heuristics match on a URL and an extraction   *)
(* error: formulaic path token, suspicious domain, 404 / not found.       *)
MatchedIndicators(url, error) ==
    (IF \E p \in FormulaicPatterns : ContainsLower(url, p)
     THEN {"ai-4", "ai-5"} ELSE {})
    \cup (IF \E p \in SuspiciousDomains : ContainsLower(url, p)
          THEN {"ai-17"} ELSE {})
    \cup (IF error # NoText /\ (\/ Contains(error, "404")
                                \/ ContainsLower(error, "not found"))
          THEN {"ai-8", "ai-9"} ELSE {})

(* C19: on the fallback path the result is AI_GENERATED when two or more  *)
(* indicator ids matched and UNCERTAIN otherwise, and it carries the ids. *)
C19_FallbackRule ==
    TookFallback
    => LET matched == MatchedIndicators(ai.url, ai.content_data.error)
       IN  /\ ai.result.classification =
                 IF Cardinality(matched) >= 2 THEN AI_GENERATED ELSE UNCERTAIN
           /\ {ai.result.ai_indicators[k] :
                  k \in DOMAIN ai.result.ai_indicators} = matched

(* C20: on the fallback path the confidence is between 30 and 60. *)
C20_FallbackConfidence ==
    TookFallback => ai.result.confidence_score \in 30..60

-----------------------------------------------------------------------------
(* TimeSpec: submit_label with its task_start_time field.                   *)
(* A timestamp text is malformed, or gives the seconds of its date and time *)
(* fields and, when it ends in Z or in an offset, its UTC offset.           *)

TaskStart(form, fields, utcoffset) ==
    [form |-> form, fields |-> fields, utcoffset |-> utcoffset]

TaskStartInputs ==
    {TaskStart("malformed", 0, 0)}
    \cup {TaskStart("naive", f, 0) : f \in {7200, 7290}}
    \cup {TaskStart("Z", f, 0) : f \in {7230}}
    \cup {TaskStart("offset", f, 3600) : f \in {10800, 10890}}

(* datetime.utcnow() at the submission, in seconds *)
SubmissionTimes == {7260}

(* datetime.fromisoformat(task_start_time.replace('Z', '+00:00')) *)
fromisoformat(t) ==
    IF t.form = "malformed" THEN Raise(<<"ValueError">>)
    ELSE [fields |-> t.fields, aware |-> t.form # "naive",
          utcoffset |-> t.utcoffset]

(* start_time.replace(tzinfo=None): the fields, the offset dropped *)
ReplaceTzinfoNone(d) == d.fields

(* The try block around the computation, the bare except, and max(0, .) *)
TimeSpentSeconds(t, now) ==
    IF IsRaise(fromisoformat(t)) THEN Max(0, 0)
    ELSE Max(0, now - ReplaceTzinfoNone(fromisoformat(t)))

(* The request a session has served: its reply, and the time spent on *)
(* the Label it stored.                                               *)
Submitted(website_id, user_id, t, now, reply) ==
    [pc |-> "submitted", website_id |-> website_id, user_id |-> user_id,
     task_start_time |-> t, now |-> now, reply |-> reply,
     time_spent_seconds |-> IF reply = 200 THEN TimeSpentSeconds(t, now) ELSE 0]

(* submit_label, the whole form, served by the first session *)
TimedSubmitLabel ==
    \E s \in {1}, w \in WebsiteIdInputs, u \in UserIdInputs,
       t \in TaskStartInputs, now \in SubmissionTimes :
        /\ sess[s] = Idle
        /\ items' = SubmitItems(items, plan, w, u)
        /\ labels' = SubmitLabels(labels, items, plan, w, u, "GenAI")
        /\ BagCardinality(labels') <= MaxLabels
        /\ sess' = [sess EXCEPT ![s] =
               Submitted(w, u, t, now, SubmitReply(items, plan, w, u))]
        /\ UNCHANGED <<plan, ai>>

(* The session of a served request is closed *)
SessionClose ==
    \E s \in Sessions :
        /\ sess[s].pc = "submitted"
        /\ sess' = [sess EXCEPT ![s] = Idle]
        /\ UNCHANGED <<items, labels, plan, ai>>

TimeNext ==
    \/ TimedSubmitLabel
    \/ SessionClose
    \/ GetLabelerTask

TimeSpec == Init /\ [][TimeNext]_vars

(* The seconds from the instant a well-formed task start time names (its *)
(* fields less its UTC offset; UTC when it has none) to the submission.  *)
ElapsedSeconds(t, now) == now - (t.fields - t.utcoffset)

(* C21: the time spent stored on a Label is an integer >= 0, the seconds   *)
(* from the task start time to the submission, or 0 when the start time is *)
(* malformed or later than the submission; the task start time never makes *)
(* a submission fail.                                                      *)
C21_TimeSpent ==
    \A s \in Sessions :
        (sess[s].pc = "submitted" /\ sess[s].reply = 200)
        => /\ sess[s].time_spent_seconds \in Nat
           /\ sess[s].time_spent_seconds =
                 IF \/ sess[s].task_start_time.form = "malformed"
                    \/ ElapsedSeconds(sess[s].task_start_time, sess[s].now) < 0
                 THEN 0
                 ELSE ElapsedSeconds(sess[s].task_start_time, sess[s].now)

-----------------------------------------------------------------------------
(* LiveSpec: every labeler keeps calling get_labeler_task, and a labeler    *)
(* who holds an IN_PROGRESS item submits a label for it; the admin uploads  *)
(* and resets at will. Label rows beyond MaxLabels are not recorded.        *)

LiveSubmit(i, u) ==
    /\ i \in DOMAIN items
    /\ items[i].status = IN_PROGRESS
    /\ items[i].assigned_user_id = u
    /\ items' = SubmitItems(items, plan, FormOf(i), FormOf(u))
    /\ labels' = IF BagCardinality(labels) < MaxLabels
                 THEN SubmitLabels(labels, items, plan, FormOf(i), FormOf(u),
                                   "GenAI")
                 ELSE labels
    /\ UNCHANGED <<plan, sess, ai>>

LiveSubmitLabel == \E i \in 1..MaxItems, u \in Labelers : LiveSubmit(i, u)

LiveNext ==
    \/ GetLabelerTask
    \/ LiveSubmitLabel
    \/ AdminUploadUrls

LiveSpec ==
    /\ Init
    /\ [][LiveNext]_vars
    /\ \A u \in Labelers : WF_vars(get_labeler_task(u))
    /\ \A i \in 1..MaxItems, u \in Labelers : SF_vars(LiveSubmit(i, u))

(* C22: every PENDING item is eventually COMPLETED. *)
C22_EventualCoverage ==
    \A i \in 1..MaxItems :
        (i \in DOMAIN items /\ items[i].status = PENDING)
        ~> (i \in DOMAIN items /\ items[i].status = COMPLETED)

-----------------------------------------------------------------------------
(* The admin upload: its form field and its counts *)

(* The lines of urls_list *)
UrlLines == Urls \cup {"", "  ", " http://a.test "}

(* str.strip() on a line *)
Strip(line) ==
    CASE line = "  " -> ""
      [] line = " http://a.test " -> "http://a.test"
      [] OTHER -> line

LineLists == {<<a>> : a \in UrlLines} \cup {<<a, b>> : a \in UrlLines, b \in UrlLines}

(* [url.strip() for url in urls_list.split('\n') if url.strip()] *)
ParseUrlList(lines) ==
    LET kept == SelectSeq(lines, LAMBDA line : Strip(line) # "")
    IN  [k \in DOMAIN kept |-> Strip(kept[k])]

(* The counters of the loop, as logged and reported in the message *)
UploadCounts(its, p, urls, reset_existing) ==
    LET created == Len(NewUrls(its, p, urls))
    IN  [created_count |-> created,
         reset_count |-> IF reset_existing THEN Len(urls) - created ELSE 0,
         skipped_count |-> IF reset_existing THEN 0 ELSE Len(urls) - created,
         failed_count |-> 0]

(* The rows that hold a URL *)
RowsOf(its, url) == {i \in DOMAIN its : its[i].url = url}

(* C23: an upload without reset adds every URL of the list that is not    *)
(* stored exactly once, skips the stored and the repeated ones, changes no *)
(* existing item, and counts added + skipped = the non-empty lines.        *)
C23_UploadAddsOnce ==
    \A lines \in LineLists :
        LET urls == ParseUrlList(lines)
            after == AdminUpload(items, plan, urls, FALSE)
            counts == UploadCounts(items, plan, urls, FALSE)
        IN  /\ \A i \in DOMAIN items : i \in DOMAIN after /\ after[i] = items[i]
            /\ \A k \in DOMAIN urls :
                   Cardinality(RowsOf(after, urls[k])) =
                       IF RowsOf(items, urls[k]) = {} THEN 1
                       ELSE Cardinality(RowsOf(items, urls[k]))
            /\ counts.created_count + counts.skipped_count =
                   Cardinality({k \in DOMAIN lines : Strip(lines[k]) # ""})
            /\ counts.created_count = Len(after) - Len(items)

C25_ParseChain ==
    WentToModel
    => /\ ai.parser = "_parse_fallback_response" => ai.response.kind = "text"
       /\ ai.response.kind = "json_object"
          => ai.parser = "json.loads" /\ ai.result = ai.response.obj
       /\ ai.response.kind = "text"
          => LET text == ai.response.pieces
                 ai_label == \/ ContainsLower(text, "ai_generated")
                             \/ ContainsLower(text, "ai-generated")
                 human_label == \/ ContainsLower(text, "human_created")
                                \/ ContainsLower(text, "human-created")
             IN  IF ai.response.obj \notin {NoObject, BrokenObject}
                 THEN ai.result = ai.response.obj
                 ELSE IF ai_label
                 THEN ai.result.classification = AI_GENERATED
                 ELSE IF human_label
                 THEN ai.result.classification = HUMAN_CREATED
                 ELSE /\ ai.result.classification = UNCERTAIN
                      /\ ai.result.confidence_score = 50

(* A response with both labels around braces that do not parse *)
C25_Witness ==
    /\ WentToModel
    /\ ai.response.kind = "text"
    /\ ai.response.obj = BrokenObject
    /\ ContainsLower(ai.response.pieces, "ai-generated")
    /\ ContainsLower(ai.response.pieces, "human_created")
    /\ ai.result.classification = AI_GENERATED

(* C26: an item that is IN_PROGRESS keeps its status and its assignee in  *)
(* every step, except a step in which its assignee's submission completes *)
(* it or an admin reset returns it to PENDING; no task request of another *)
(* labeler reassigns it.                                                  *)
C26_NoReclaim ==
    [][\A i \in DOMAIN items :
          items[i].status = IN_PROGRESS
          => /\ i \in DOMAIN items'
             /\ \/ items'[i] = items[i]
                \/ /\ items'[i].status = COMPLETED
                   /\ items'[i].assigned_user_id = items[i].assigned_user_id
                \/ /\ items'[i].status = PENDING
                   /\ items'[i].assigned_user_id = None]_vars

-----------------------------------------------------------------------------
(* The requests that await the analysis: /ai/analyze-url and             *)
(* /ai/preselect-indicators, served by the first session.  The session   *)
(* of a request is made with autocommit=False: its first query begins a  *)
(* transaction, which lasts until a commit, a rollback or the close of   *)
(* get_db's finally.                                                     *)

AnalysisOps == {"analyze_url_content", "preselect_indicators_for_task"}

Request(pc, op, user, url, in_transaction) ==
    [pc |-> pc, op |-> op, user |-> user, url |-> url,
     in_transaction |-> in_transaction]

(* The URL of a content item as the text the analyzer reads *)
UrlPieces(url) ==
    IF url = "http://a.test" THEN <<"http://", "a.test">>
    ELSE <<"http://", "b.test">>

(* The dependencies of the handler: get_db makes the session, and the *)
(* query of get_current_user begins its transaction.                  *)
get_current_user(s) ==
    /\ sess[s] = Idle
    /\ \E u \in Labelers, op \in AnalysisOps :
           sess' = [sess EXCEPT ![s] = Request("authenticated", op, u, NoText, TRUE)]
    /\ UNCHANGED <<items, labels, plan, ai>>

(* preselect_indicators_for_task up to the analyzer: the query of the *)
(* active task, 404 when there is none                                *)
preselect_indicators_for_task(s) ==
    /\ sess[s].pc = "authenticated"
    /\ sess[s].op = "preselect_indicators_for_task"
    /\ LET current_task == ExistingTask(items, plan, sess[s].user)
       IN  sess' = [sess EXCEPT ![s] =
               IF current_task = None
               THEN Request("responded", sess[s].op, sess[s].user, NoText,
                            sess[s].in_transaction)
               ELSE Request("ready", sess[s].op, sess[s].user,
                            UrlPieces(items[current_task].url),
                            sess[s].in_transaction)]
    /\ UNCHANGED <<items, labels, plan, ai>>

(* analyze_url_content up to the analyzer: the URL is in the request *)
analyze_url_content(s) ==
    /\ sess[s].pc = "authenticated"
    /\ sess[s].op = "analyze_url_content"
    /\ \E url \in AnalysisUrls :
           sess' = [sess EXCEPT ![s] =
               Request("ready", sess[s].op, sess[s].user, url,
                       sess[s].in_transaction)]
    /\ UNCHANGED <<items, labels, plan, ai>>

(* `await ai_analyzer.analyze_url_async(url)` begins: the page is fetched *)
AwaitAnalysis(s) ==
    /\ sess[s].pc = "ready"
    /\ ai = Idle
    /\ sess' = [sess EXCEPT ![s].pc = "awaiting"]
    /\ \E content_data \in ExtractionOutcomes :
           ai' = [pc |-> "extracted", url |-> sess[s].url,
                  content_data |-> content_data, fetches |-> 1]
    /\ UNCHANGED <<items, labels, plan>>

(* The await returns and the handler builds its response *)
AnalysisResume(s) ==
    /\ sess[s].pc = "awaiting"
    /\ ai.pc = "done"
    /\ sess' = [sess EXCEPT ![s].pc = "responded"]
    /\ ai' = Idle
    /\ UNCHANGED <<items, labels, plan>>

(* The finally of get_db: db.close() ends the transaction *)
get_db_close(s) ==
    /\ sess[s].pc = "responded"
    /\ sess' = [sess EXCEPT ![s] = Idle]
    /\ UNCHANGED <<items, labels, plan, ai>>

AwaitNext ==
    \/ GetLabelerTask
    \/ get_current_user(1)
    \/ preselect_indicators_for_task(1)
    \/ analyze_url_content(1)
    \/ AwaitAnalysis(1)
    \/ analyze_url_async
    \/ AnalysisResume(1)
    \/ get_db_close(1)

AwaitSpec == Init /\ [][AwaitNext]_vars

(* C27: while a request awaits the analysis of the external model, its *)
(* database session has no transaction open.                           *)
C27_NoTransactionWhileAwaiting ==
    \A s \in Sessions :
        sess[s].pc = "awaiting" => ~sess[s].in_transaction

(* C28: a Label, once created, is never changed or deleted: every step of *)
(* the task request, the submission and the uploads and resets keeps each *)
(* stored Label, with all its fields, as many times as it was stored.     *)
C28_LabelsOnlyGrow ==
    [][\A l \in BagToSet(labels) :
          /\ l \in BagToSet(labels')
          /\ CopiesIn(l, labels') >= CopiesIn(l, labels)]_vars

(* A Label is stored next to another, and its item has been reset since *)
C28_Witness ==
    /\ BagCardinality(labels) = 2
    /\ \E l \in BagToSet(labels) :
           /\ l.content_item_id \in DOMAIN items
           /\ items[l.content_item_id].status = PENDING

(* C29: in every state an item's completed_at is set exactly when its    *)
(* status is COMPLETED, and every COMPLETED item has a Label made by the *)
(* item's current assignee.                                              *)
C29_CompletedAt ==
    \A i \in DOMAIN items :
        /\ items[i].completed_at # None <=> items[i].status = COMPLETED
        /\ items[i].status = COMPLETED
           => HasLabel(labels, i, items[i].assigned_user_id)

(* The URLs an upload lists *)
Listed(urls) == {urls[k] : k \in DOMAIN urls}

(* The step is an upload of urls with reset_existing that resets an item *)
IsReset(urls) ==
    /\ items' = AdminUpload(items, plan, urls, TRUE)
    /\ \E i \in DOMAIN items :
           items[i].url \in Listed(urls) /\ items'[i] # items[i]

(* C30: an admin upload with reset_existing leaves every listed existing  *)
(* item PENDING with no assignee and no completion time, whatever its     *)
(* status was, changes no Label and no unlisted item, and a submission by *)
(* the item's former assignee is then rejected and writes nothing.        *)
C30_ResetEffect ==
    [][\A urls \in UrlLists(Urls) :
          IsReset(urls)
          => /\ labels' = labels
             /\ \A i \in DOMAIN items :
                    IF items[i].url \in Listed(urls)
                    THEN /\ items'[i].status = PENDING
                         /\ items'[i].assigned_user_id = None
                         /\ items'[i].completed_at = None
                         /\ items'[i].url = items[i].url
                         /\ items[i].assigned_user_id \in Labelers
                            => LET w == FormOf(i)
                                   u == FormOf(items[i].assigned_user_id)
                               IN  /\ SubmitReply(items', plan, w, u) # 200
                                   /\ SubmitItems(items', plan, w, u) = items'
                                   /\ \A v \in LabelInputs :
                                          SubmitLabels(labels', items', plan, w, u, v)
                                              = labels'
                    ELSE items'[i] = items[i]]_vars

====
